---- MODULE Spec2Model ----
(***************************************************************************)
(* A model of gz-common's SVG path loader (graphics/src/SVGLoader.cc):     *)
(*   - the path pipeline PathAttribs -> PathCommands (command parser,      *)
(*     SplitSubpaths, ExpandCommands, SubpathToPolyline, transform), and   *)
(*   - the polygon reconstructor SVGLoader::PathsToClosedPolylines.        *)
(*                                                                         *)
(* Numbers.  A double is modelled by an integer count of 1e-7 user units,  *)
(* so the two distance thresholds of the code, 1e-5 and 1e-6, are the      *)
(* integers CloseEps and ArcEps, and coordinates below, at and above each  *)
(* threshold exist.  Angles are integers in units of pi/3140640 (about one *)
(* microradian), so that rational multiples of pi are exact.               *)
(*                                                                         *)
(* Undefined behaviour (back() or front() of an empty vector, operator[]   *)
(* past the end) is recorded in the variable ub and followed by a          *)
(* nondeterministic choice of its outcomes: the process dies, or the read  *)
(* yields an arbitrary value and the code carries on.                      *)
(***************************************************************************)
EXTENDS Integers, Sequences, FiniteSets, TLC

VARIABLES
  \* ---- one call of PathAttribs / PathCommands -------------------------
  attribs,      \* the attributes of the element from pAttrib on
  tokens,       \* the tokens of the d attribute, split(value, " ")
  transform,    \* _path.transform
  cmds,         \* PathCommands' local cmds
  subpaths,     \* PathCommands' local subpaths (filled by SplitSubpaths)
  splitOk,      \* what SplitSubpaths returned ("none" before the call)
  expanded,     \* _path.subpaths (filled by ExpandCommands)
  xi,           \* ExpandCommands: <<subpath index, command index>>
  xn,           \* ExpandCommands: n of the inner while loop, -1 outside it
  polylines,    \* _path.polylines
  p,            \* PathCommands' running point p
  ti,           \* tessellation: <<subpath index, command index>>
  pc,           \* where the call is
  result,       \* what PathCommands returned ("none" while it runs)
  ub,           \* the undefined behaviours executed so far
  \* ---- one call of PathsToClosedPolylines -----------------------------
  polysIn,      \* the polylines of _paths, flattened
  tol,          \* _tol
  segments,     \* the list of remaining segments
  segments0,    \* the segment list as first built
  polyline,     \* the chain under construction
  closedPolys,  \* _closedPolys
  openPolys,    \* _openPolys
  rpc           \* where the call is

pathVars == <<attribs, tokens, transform, cmds, subpaths, splitOk, expanded, xi, xn,
              polylines, p, ti, pc, result, ub>>
polyVars == <<polysIn, tol, segments, segments0, polyline, closedPolys,
              openPolys, rpc>>
vars == <<pathVars, polyVars>>

\* ------------------------------------------------------------------------
\* Bounds of the model
\* ------------------------------------------------------------------------
\* Longest path, in raw commands, of the structural input family.
MaxCmds == 3
\* ExpandCommands' inner loop is followed for at most this many commands
\* emitted from one raw command (the loop itself has no bound).
MaxEmit == 4
\* Samples per Bezier curve: SVGLoader(_samples), resolution = 1/_samples.
Samples == 2
\* Side of the square whose edges are the reconstructor's inputs; the
\* tolerances tried are 1 .. Side + 1.
Side == 4
\* Largest offset of the displaced corner of the square.
MaxEps == 3
\* Most points of a polyline of the reconstructor's second input family.
MaxPts == 3

\* ------------------------------------------------------------------------
\* Program constants
\* ------------------------------------------------------------------------
\* 1e-5, the closing distance of Z/z, in units of 1e-7.
CloseEps == 100
\* 1e-6, the degenerate-arc threshold of arcPath, in units of 1e-7.
ArcEps == 10
\* One user unit (1.0) in units of 1e-7.
Unit == 100000 * CloseEps
\* GZ_PI in angle units.  The angle unit is pi/3140640 (1.0003 microradian):
\* every multiple of pi/1440 is an integer, and an integer number of units
\* is below 0.001 rad exactly when it is below 1000.
PiT == 3140640
\* 0.001 rad, the half-circle guard of arcPath, in angle units.
HalfCircleEps == 1000

Abs(x) == IF x < 0 THEN -x ELSE x

Pt(x, y) == <<x, y>>

\* gz::math::Vector2d::Zero, and the default-constructed Vector2d.
Zero == Pt(0, 0)

\* a.Distance(b) > eps, without squaring a large difference.
DistGT(a, b, eps) ==
  LET dx == Abs(a[1] - b[1])
      dy == Abs(a[2] - b[2])
  IN  dx > eps \/ dy > eps \/ dx * dx + dy * dy > eps * eps

\* a.Distance(b) < eps.
DistLT(a, b, eps) ==
  LET dx == Abs(a[1] - b[1])
      dy == Abs(a[2] - b[2])
  IN  dx < eps /\ dy < eps /\ dx * dx + dy * dy < eps * eps

\* tolower() on a command letter.
ToLower(c) ==
  CASE c = "A" -> "a" [] c = "C" -> "c" [] c = "M" -> "m" [] c = "Q" -> "q"
    [] c = "L" -> "l" [] c = "V" -> "v" [] c = "H" -> "h" [] c = "Z" -> "z"
    [] OTHER -> c

\* A lookup string without q and Q.
LookupSeven == {"a", "A", "c", "C", "m", "M", "l", "L", "v", "V",
                "h", "H", "z", "Z"}

\* The characters of PathCommands' lookup string "aAcCmMqQlLvVhHzZ".
Lookup == {"a", "A", "c", "C", "m", "M", "q", "Q", "l", "L", "v", "V",
           "h", "H", "z", "Z"}

\* An SVGCommand.
Cmd(c, ns) == [cmd |-> c, numbers |-> ns]

\* ------------------------------------------------------------------------
\* Tokens.  A token is a non-empty string; the parser reads its first
\* character and, when that is no command letter, the atof of each of its
\* comma separated pieces.  first is token[0], nums the atof values.
\* ------------------------------------------------------------------------
LetterTok(c) == [first |-> c, nums |-> <<>>]
NumTok(ns) == [first |-> "0", nums |-> ns]

\* The parser loop of PathCommands over the tokens, then "the last command".
RECURSIVE ParseLoop(_, _, _, _)
ParseLoop(toks, cs, lastCmd, numbers) ==
  IF toks = <<>>
  THEN IF lastCmd # "x" THEN Append(cs, Cmd(lastCmd, numbers)) ELSE cs
  ELSE LET token == Head(toks)
       IN  IF token.first \notin Lookup
           THEN ParseLoop(Tail(toks), cs, lastCmd, numbers \o token.nums)
           ELSE ParseLoop(Tail(toks),
                          IF lastCmd # "x"
                          THEN Append(cs, Cmd(lastCmd, numbers)) ELSE cs,
                          token.first, <<>>)

ParseCommands(toks) == ParseLoop(toks, <<>>, "x", <<>>)

\* ------------------------------------------------------------------------
\* SplitSubpaths
\* ------------------------------------------------------------------------
\* The for loop of SplitSubpaths.  _subpaths.back() on an empty vector is
\* undefined; where the process survives it, the command written through
\* that reference is lost.  hit tells whether this happened.
RECURSIVE SplitLoop(_, _, _)
SplitLoop(cs, subs, hit) ==
  IF cs = <<>> THEN [subpaths |-> subs, hit |-> hit]
  ELSE LET cmd   == Head(cs)
           subs1 == IF ToLower(cmd.cmd) = "m" THEN Append(subs, <<>>) ELSE subs
       IN  IF subs1 = <<>>
           THEN SplitLoop(Tail(cs), subs1, TRUE)
           ELSE SplitLoop(Tail(cs),
                          [subs1 EXCEPT ![Len(subs1)] = Append(@, cmd)], hit)

\* A splitter that puts every command in one subpath.
SplitSubpathsOne(cs) ==
  [ok |-> cs # <<>>, subpaths |-> IF cs = <<>> THEN <<>> ELSE <<cs>>,
   hit |-> FALSE]

\* SplitSubpaths(_cmds, _subpaths): its return value, _subpaths, and
\* whether it executed back() on an empty vector.
SplitSubpaths(cs) ==
  IF cs = <<>>
  THEN [ok |-> FALSE, subpaths |-> <<>>, hit |-> FALSE]
  ELSE LET r == SplitLoop(cs, <<>>, FALSE)
       IN  [ok |-> TRUE, subpaths |-> r.subpaths, hit |-> r.hit]

\* ------------------------------------------------------------------------
\* ExpandCommands
\* ------------------------------------------------------------------------
\* numberCount of ExpandCommands for a command letter.
NumberCount(c) ==
  LET l == ToLower(c)
  IN  CASE l = "a" -> 7
        [] l = "c" -> 6
        [] l = "m" -> 2
        [] l = "l" -> 2
        [] l = "v" -> 1
        [] l = "h" -> 1
        [] OTHER -> 0

\* Values an out-of-range read of a vector<double> may yield (two of them,
\* both below the thresholds of arcPath).
Garbage == {0, 5}

\* All sequences of n garbage values.
GarbageSeqs(n) == [1..n -> Garbage]

\* A round that reads xCmd.numbers[i] in the place of xCmd.numbers[i+n].
GroupNumbersFirst(ns, n, count, pad) ==
  [i \in 1..count |-> IF i <= Len(ns) THEN ns[i] ELSE pad[i - Len(ns)]]

\* xCmd.numbers[i+n] for i = 0 .. numberCount-1: the numbers read by one
\* round of ExpandCommands' while loop; pad stands for the reads past the
\* end of xCmd.numbers.
GroupNumbers(ns, n, count, pad) ==
  [i \in 1..count |-> IF n + i <= Len(ns) THEN ns[n + i]
                      ELSE pad[n + i - Len(ns)]]

\* How many of those reads are past the end.
GroupOverrun(ns, n, count) ==
  IF n + count > Len(ns) THEN n + count - Len(ns) ELSE 0

\* ------------------------------------------------------------------------
\* Curves
\* ------------------------------------------------------------------------
\* bezierInterpolate at t = k / Samples, one coordinate; the quotient is
\* rounded down to the unit.
BezierCoord(k, a0, a1, a2, a3) ==
  LET S == Samples
      j == S - k
  IN  (j * j * j * a0 + 3 * k * j * j * a1 + 3 * k * k * j * a2
         + k * k * k * a3) \div (S * S * S)

bezierInterpolate(k, p0, p1, p2, p3) ==
  Pt(BezierCoord(k, p0[1], p1[1], p2[1], p3[1]),
     BezierCoord(k, p0[2], p1[2], p2[2], p3[2]))

\* cubicBezier: the samples at t = step, 2 step, ... < 1, then _p3.  With
\* step = 1/Samples and Samples <= 5 the sum t += step reaches 1.0 exactly
\* at the Samples-th round, so there are Samples - 1 interior samples.
cubicBezier(p0, p1, p2, p3, points) ==
  points \o [k \in 1..(Samples - 1) |-> bezierInterpolate(k, p0, p1, p2, p3)]
         \o <<p3>>

\* ------------------------------------------------------------------------
\* Integer stand-ins for libm
\* ------------------------------------------------------------------------
\* Division rounding towards zero.
Quot(a, b) ==
  IF (a < 0) = (b < 0) THEN Abs(a) \div Abs(b) ELSE -(Abs(a) \div Abs(b))

RECURSIVE SqrtSearch(_, _, _)
SqrtSearch(n, lo, hi) ==
  IF lo >= hi THEN lo
  ELSE LET mid == (lo + hi + 1) \div 2
       IN  IF mid * mid <= n THEN SqrtSearch(n, mid, hi)
           ELSE SqrtSearch(n, lo, mid - 1)

\* sqrt, rounded down, of 0 <= n < 2^30.
ISqrt(n) == SqrtSearch(n, 0, 32767)

RECURSIVE Gcd(_, _)
Gcd(a, b) == IF b = 0 THEN Abs(a) ELSE Gcd(b, a % Abs(b))

\* The direction of a vector: its components divided by their gcd.
Direction(v) ==
  LET g == Gcd(v[1], v[2])
  IN  IF g = 0 THEN v ELSE <<Quot(v[1], g), Quot(v[2], g)>>

\* The grid on which cos and sin are evaluated: pi/48 (3.75 degrees).
Grid == PiT \div 48

\* 1000 cos(g pi/48) for 0 <= g <= 24, by Bhaskara's approximation
\* cos x = (pi^2 - 4 x^2) / (pi^2 + x^2), rounded down.
CosGrid(g) == (1000 * (2304 - 4 * g * g)) \div (2304 + g * g)

\* 1000 cos(a), a in angle units, evaluated at a rounded down to the grid.
Cos1000(a) ==
  LET g == ((a % (2 * PiT)) \div Grid)
  IN  CASE g <= 24 -> CosGrid(g)
        [] g > 24 /\ g <= 48 -> -CosGrid(48 - g)
        [] g > 48 /\ g <= 72 -> -CosGrid(g - 48)
        [] OTHER -> CosGrid(96 - g)

\* 1000 sin(a).
Sin1000(a) == Cos1000(a - PiT \div 2)

\* VecAng(_ux, _uy, _vx, _vy): the signed angle from u to v.  acos is
\* tabulated for the angles that are multiples of 30 and of 45 degrees; the
\* model's inputs produce no other.  (The code narrows its arguments to
\* float; the model keeps them exact.)
VecAng(u, v) ==
  LET dot == u[1] * v[1] + u[2] * v[2]
      n   == dot * dot
      d   == (u[1] * u[1] + u[2] * u[2]) * (v[1] * v[1] + v[2] * v[2])
      a   == CASE dot = 0 -> PiT \div 2
               [] dot # 0 /\ n = d -> IF dot > 0 THEN 0 ELSE PiT
               [] dot # 0 /\ 2 * n = d ->
                    IF dot > 0 THEN PiT \div 4 ELSE 3 * (PiT \div 4)
               [] dot # 0 /\ 4 * n = d ->
                    IF dot > 0 THEN PiT \div 3 ELSE 2 * (PiT \div 3)
               [] dot # 0 /\ 4 * n = 3 * d ->
                    IF dot > 0 THEN PiT \div 6 ELSE 5 * (PiT \div 6)
  IN  IF u[1] * v[2] < u[2] * v[1] THEN -a ELSE a

\* ------------------------------------------------------------------------
\* arcPath
\* ------------------------------------------------------------------------
\* "Choose large arc": the delta angle after the _largeArc adjustment.
LargeArcDelta(da, largeArc) ==
  IF largeArc # 0
  THEN IF da > 0 THEN da - 2 * PiT ELSE 2 * PiT + da
  ELSE da

\* "rounding errors for half circles": the guard on the delta angle.
HalfCircleGuard(da, sweepDirection) ==
  IF PiT - Abs(da) < HalfCircleEps
  THEN IF sweepDirection # 0 THEN PiT ELSE -PiT
  ELSE da

\* ndivs = static_cast<int>(fabs(da) / (GZ_PI * 0.5) + 1.0).
ArcDivs(da) == (2 * Abs(da)) \div PiT + 1

\* The for loop of arcPath over i = 0 .. ndivs.  g holds the values the loop
\* reads: rx, ry, cos and sin of rotx (times 1000), twice the centre, a1,
\* da, ndivs and kappa (times 1000); prev holds px, py, ptanx, ptany.
RECURSIVE ArcLoop(_, _, _, _)
ArcLoop(i, g, prev, points) ==
  IF i > g.ndivs THEN points
  ELSE LET a    == g.a1 + Quot(g.da * i, g.ndivs)
           dx   == Cos1000(a)
           dy   == Sin1000(a)
           pox  == dx * g.rx
           poy  == dy * g.ry
           x    == Quot(pox * g.cos - poy * g.sin + 500000 * g.cx2, 1000000)
           y    == Quot(pox * g.sin + poy * g.cos + 500000 * g.cy2, 1000000)
           tx   == Quot(-dy * g.rx * g.kappa, 1000)
           ty   == Quot(dx * g.ry * g.kappa, 1000)
           tanx == Quot(tx * g.cos - ty * g.sin, 1000000)
           tany == Quot(tx * g.sin + ty * g.cos, 1000000)
           pts  == IF i > 0
                   THEN cubicBezier(Pt(prev.px, prev.py),
                                    Pt(prev.px + prev.ptanx, prev.py + prev.ptany),
                                    Pt(x - tanx, y - tany), Pt(x, y), points)
                   ELSE points
       IN  ArcLoop(i + 1, g,
                   [px |-> x, py |-> y, ptanx |-> tanx, ptany |-> tany], pts)

\* arcPath lines 369-376: cos and sin of rotx (times 1000) and x1', y1'.
\* x1p, y1p, cxp, cyp and the centre are held doubled, so that halves stay
\* integers.
ArcFrame(p0, pEnd, rotxDeg) ==
  LET rotx == Quot(rotxDeg, Unit) * (PiT \div 180)
      dx   == p0[1] - pEnd[1]
      dy   == p0[2] - pEnd[2]
  IN  [cos  |-> Cos1000(rotx), sin |-> Sin1000(rotx),
       x1p2 |-> Quot(Cos1000(rotx) * dx + Sin1000(rotx) * dy, 1000),
       y1p2 |-> Quot(Cos1000(rotx) * dy - Sin1000(rotx) * dx, 1000)]

\* Lines 377-383: d = Sqr(x1p)/Sqr(rx) + Sqr(y1p)/Sqr(ry) = dNum / dDen, and
\* the radii scaled by sqrt(d) when d > 1.
ArcScale(f, rx0, ry0) ==
  LET dNum == f.x1p2 * f.x1p2 * ry0 * ry0 + f.y1p2 * f.y1p2 * rx0 * rx0
      dDen == 4 * rx0 * rx0 * ry0 * ry0
  IN  IF dNum > dDen
      THEN [rx |-> ISqrt(dNum) \div (2 * ry0), ry |-> ISqrt(dNum) \div (2 * rx0)]
      ELSE [rx |-> rx0, ry |-> ry0]

\* Lines 385-396: s = sqrt(sa / sb) = num / den, negated when
\* _largeArc == _sweepDirection.
ArcRoot(f, r, largeArc, sweepDirection) ==
  LET sa  == 4 * r.rx * r.rx * r.ry * r.ry - r.rx * r.rx * f.y1p2 * f.y1p2
               - r.ry * r.ry * f.x1p2 * f.x1p2
      sb  == r.rx * r.rx * f.y1p2 * f.y1p2 + r.ry * r.ry * f.x1p2 * f.x1p2
      sgn == IF largeArc = sweepDirection THEN -1 ELSE 1
  IN  IF sb > 0 /\ sa > 0
      THEN [num |-> sgn * ISqrt(sa), den |-> ISqrt(sb)]
      ELSE [num |-> 0, den |-> 1]

\* Lines 398-403: cx', cy' and the centre, all doubled.
ArcCentre(f, r, s, p0, pEnd) ==
  LET cxp2 == Quot(s.num * r.rx * f.y1p2, s.den * r.ry)
      cyp2 == Quot(-s.num * r.ry * f.x1p2, s.den * r.rx)
  IN  [cxp2 |-> cxp2, cyp2 |-> cyp2,
       cx2  |-> p0[1] + pEnd[1] + Quot(f.cos * cxp2 - f.sin * cyp2, 1000),
       cy2  |-> p0[2] + pEnd[2] + Quot(f.sin * cxp2 + f.cos * cyp2, 1000)]

\* Lines 405-431: theta1 and delta theta.
ArcAngles(f, r, c, largeArc, sweepDirection) ==
  LET u == Direction(<<(f.x1p2 - c.cxp2) * r.ry, (f.y1p2 - c.cyp2) * r.rx>>)
      v == Direction(<<(-f.x1p2 - c.cxp2) * r.ry, (-f.y1p2 - c.cyp2) * r.rx>>)
  IN  [a1 |-> VecAng(<<1, 0>>, u),
       da |-> HalfCircleGuard(LargeArcDelta(VecAng(u, v), largeArc),
                              sweepDirection)]

\* Lines 444-448: kappa (times 1000) for delta angle da.
ArcKappa(da) ==
  LET hda == Quot(Quot(da, ArcDivs(da)), 2)
      k   == Abs(Quot(4000 * (1000 - Cos1000(hda)), 3 * Sin1000(hda)))
  IN  IF da < 0 THEN -k ELSE k

\* The values the for loop of arcPath reads.
ArcGeometry(f, r, c, g) ==
  [rx |-> r.rx, ry |-> r.ry, cos |-> f.cos, sin |-> f.sin,
   cx2 |-> c.cx2, cy2 |-> c.cy2, a1 |-> g.a1, da |-> g.da,
   ndivs |-> ArcDivs(g.da), kappa |-> ArcKappa(g.da)]

ArcCentred(f, r, s, p0, pEnd, largeArc, sweepDirection, points) ==
  LET c == ArcCentre(f, r, s, p0, pEnd)
  IN  ArcLoop(0, ArcGeometry(f, r, c,
                             ArcAngles(f, r, c, largeArc, sweepDirection)),
              [px |-> 0, py |-> 0, ptanx |-> 0, ptany |-> 0], points)

ArcScaled(f, r, p0, pEnd, largeArc, sweepDirection, points) ==
  ArcCentred(f, r, ArcRoot(f, r, largeArc, sweepDirection), p0, pEnd,
             largeArc, sweepDirection, points)

\* arcPath past its degenerate test: the conversion to the centre
\* parameterization and the approximation by cubic splines.
ArcCurve(p0, rx0, ry0, rotxDeg, largeArc, sweepDirection, pEnd, points) ==
  LET f == ArcFrame(p0, pEnd, rotxDeg)
  IN  ArcScaled(f, ArcScale(f, rx0, ry0), p0, pEnd, largeArc, sweepDirection,
                points)

\* A fallback that draws the chord from both of its ends: the degenerate
\* branch of arcPath with the start point pushed as well.
arcPathChord(p0, rx, ry, rotxDeg, largeArc, sweepDirection, pEnd, points) ==
  IF DistLT(p0, pEnd, ArcEps) \/ rx < ArcEps \/ ry < ArcEps
  THEN Append(Append(points, p0), pEnd)
  ELSE ArcCurve(p0, rx, ry, rotxDeg, largeArc, sweepDirection, pEnd, points)

\* arcPath(_p0, _rx, _ry, _rotxDeg, _largeArc, _sweepDirection, _pEnd,
\*         _step, _points).
arcPath(p0, rx, ry, rotxDeg, largeArc, sweepDirection, pEnd, points) ==
  IF DistLT(p0, pEnd, ArcEps) \/ rx < ArcEps \/ ry < ArcEps
  THEN Append(points, pEnd)
  ELSE ArcCurve(p0, rx, ry, rotxDeg, largeArc, sweepDirection, pEnd, points)

\* ------------------------------------------------------------------------
\* SubpathToPolyline, one command of the subpath at a time
\* ------------------------------------------------------------------------
\* How many numbers one round of the command's while loop reads.
TessGroup(c) ==
  CASE c \in {"m", "l", "M", "L"} -> 2
    [] c \in {"c", "C"} -> 6
    [] c \in {"a", "A"} -> 7
    [] OTHER -> 0

\* How many of the reads of the last round are past the end of cmd.numbers.
TessOverrun(cmd) ==
  LET g == TessGroup(cmd.cmd)
  IN  IF g = 0 THEN 0 ELSE (g - (Len(cmd.numbers) % g)) % g

\* cases 'm', 'l' (rel) and 'M', 'L': ns is cmd.numbers followed by what
\* the reads past its end yield, count is cmd.numbers.size().
RECURSIVE LineLoop(_, _, _, _, _, _)
LineLoop(ns, count, i, rel, last, poly) ==
  IF i >= count THEN [polyline |-> poly, last |-> last]
  ELSE LET q == IF rel THEN Pt(ns[i + 1] + last[1], ns[i + 2] + last[2])
                ELSE Pt(ns[i + 1], ns[i + 2])
       IN  LineLoop(ns, count, i + 2, rel, q, Append(poly, q))

\* cases 'c' (rel) and 'C'.
RECURSIVE CurveLoop(_, _, _, _, _, _)
CurveLoop(ns, count, i, rel, last, poly) ==
  IF i >= count THEN [polyline |-> poly, last |-> last]
  ELSE LET o  == IF rel THEN last ELSE Zero
           p1 == Pt(ns[i + 1] + o[1], ns[i + 2] + o[2])
           p2 == Pt(ns[i + 3] + o[1], ns[i + 4] + o[2])
           p3 == Pt(ns[i + 5] + o[1], ns[i + 6] + o[2])
       IN  CurveLoop(ns, count, i + 6, rel, p3,
                     cubicBezier(last, p1, p2, p3, poly))

\* static_cast<unsigned int> of a non-negative number.
ToUnsigned(x) == x \div Unit

\* cases 'a' (rel) and 'A'.
RECURSIVE ArcCmdLoop(_, _, _, _, _, _)
ArcCmdLoop(ns, count, i, rel, last, poly) ==
  IF i >= count THEN [polyline |-> poly, last |-> last]
  ELSE LET o    == IF rel THEN last ELSE Zero
           pEnd == Pt(ns[i + 6] + o[1], ns[i + 7] + o[2])
       IN  ArcCmdLoop(ns, count, i + 7, rel, pEnd,
                      arcPath(last, ns[i + 1], ns[i + 2], ns[i + 3],
                              ToUnsigned(ns[i + 4]), ToUnsigned(ns[i + 5]),
                              pEnd, poly))

\* A close without the distance test: the first point is always pushed.
ClosePathAlways(poly) == Append(poly, poly[1])

\* cases 'Z' and 'z' on a polyline that has a first point.
ClosePath(poly) ==
  IF DistGT(poly[Len(poly)], poly[1], CloseEps)
  THEN Append(poly, poly[1])
  ELSE poly

\* The body of SubpathToPolyline's for loop for one command: the polyline
\* and _last after it.  pad is what the reads past the end yield.  (Z/z on
\* an empty polyline is undefined and handled by the caller.)
TessCmd(cmd, last, poly, pad) ==
  LET c     == cmd.cmd
      ns    == cmd.numbers \o pad
      count == Len(cmd.numbers)
  IN  CASE c \in {"m", "l"} -> LineLoop(ns, count, 0, TRUE, last, poly)
        [] c \in {"M", "L"} -> LineLoop(ns, count, 0, FALSE, last, poly)
        [] c = "C" -> CurveLoop(ns, count, 0, FALSE, last, poly)
        [] c = "c" -> CurveLoop(ns, count, 0, TRUE, last, poly)
        [] c = "A" -> ArcCmdLoop(ns, count, 0, FALSE, last, poly)
        [] c = "a" -> ArcCmdLoop(ns, count, 0, TRUE, last, poly)
        [] c \in {"Z", "z"} -> [polyline |-> ClosePath(poly), last |-> last]
        [] OTHER -> [polyline |-> poly, last |-> last]

\* ------------------------------------------------------------------------
\* The transform of a path
\* ------------------------------------------------------------------------
\* gz::math::Matrix3d::Identity.
Identity == <<<<1, 0, 0>>, <<0, 1, 0>>, <<0, 0, 1>>>>

\* _path.transform * Vector3d(x, y, 1), its X and Y.
TransformPoint(m, q) ==
  Pt(m[1][1] * q[1] + m[1][2] * q[2] + m[1][3],
     m[2][1] * q[1] + m[2][2] * q[2] + m[2][3])

\* The transform applied to the points that already carry it.
ApplyTransformTwice(m, polys) ==
  [k \in 1..Len(polys) |->
     [j \in 1..Len(polys[k]) |->
        TransformPoint(m, TransformPoint(m, polys[k][j]))]]

\* "if necessary, apply transform to p and polyline".
ApplyTransform(m, polys) ==
  IF m # Identity
  THEN [k \in 1..Len(polys) |->
          [j \in 1..Len(polys[k]) |-> TransformPoint(m, polys[k][j])]]
  ELSE polys

\* ------------------------------------------------------------------------
\* PathAttribs
\* ------------------------------------------------------------------------
\* An attribute; the value of a d attribute is given as its tokens, the
\* value of a transform attribute as the matrix ParseTransformMatrixStr
\* makes of it.
Attrib(n, v) == [name |-> n, value |-> v]

\* The while loop over the attributes: tokens and _path.transform after it.
RECURSIVE AttribLoop(_, _, _)
AttribLoop(as, toks, m) ==
  IF as = <<>> THEN [tokens |-> toks, transform |-> m]
  ELSE LET a == Head(as)
       IN  IF a.name = "transform" THEN AttribLoop(Tail(as), toks, a.value)
           ELSE IF a.name = "d" THEN AttribLoop(Tail(as), a.value, m)
           ELSE AttribLoop(Tail(as), toks, m)

\* ------------------------------------------------------------------------
\* The inputs of the path pipeline
\* ------------------------------------------------------------------------
\* All sequences over S of length at most n.
SeqsUpTo(S, n) == UNION {[1..k -> S] : k \in 0..n}

RECURSIVE Flatten(_)
Flatten(ss) == IF ss = <<>> THEN <<>> ELSE Head(ss) \o Flatten(Tail(ss))

\* A command letter followed by one token of comma separated numbers.
Chunk(c, ns) == IF ns = <<>> THEN <<LetterTok(c)>>
                ELSE <<LetterTok(c), NumTok(ns)>>

\* The pieces of the structural family: well-formed commands, commands
\* with too few or too many numbers, unsupported letters, a bare number.
StructChunks ==
  { Chunk("m", <<10, 20>>),
    Chunk("M", <<300, 400>>),
    Chunk("m", <<>>),
    Chunk("l", <<30, 40>>),
    Chunk("l", <<30, 40, 50, 60>>),
    Chunk("l", <<30, 40, 50>>),
    Chunk("c", <<8, 16, 24, 32, 40, 48>>),
    Chunk("a", <<0, 0, 0, 0, 0, 30, 40>>),
    Chunk("z", <<>>),
    Chunk("h", <<70>>),
    Chunk("q", <<>>),
    Chunk("q", <<70, 80>>),
    <<NumTok(<<90>>)>> }

\* Structural family: every path of at most MaxCmds pieces.
StructInputs == {Flatten(cs) : cs \in SeqsUpTo(StructChunks, MaxCmds)}

\* End points around the closing distance 1e-5 from the origin.
ClosePts ==
  { <<0, 0>>, <<60, 80>>, <<60, 81>>, <<-60, -80>>, <<0, 100>>, <<0, 101>>,
    <<99, 0>>, <<1000, 0>> }

\* Closing family: a move, one or two absolute or relative lines, one or
\* two closes.
CloseInputs ==
  { Chunk(m[1], m[2]) \o Flatten([k \in 1..Len(ls) |-> Chunk(l, ls[k])])
      \o Flatten([k \in 1..nz |-> Chunk(z, <<>>)]) :
      m \in {<<"M", <<0, 0>>>>, <<"m", <<300, 400>>>>},
      l \in {"L", "l"}, z \in {"z", "Z"}, nz \in 1..2,
      ls \in SeqsUpTo(ClosePts, 2) \ {<<>>} }

\* The example of the specification: a square of side 10.
SquareInput ==
  Chunk("M", <<0, 0>>) \o Chunk("L", <<10 * Unit, 0>>)
    \o Chunk("L", <<10 * Unit, 10 * Unit>>) \o Chunk("L", <<0, 10 * Unit>>)
    \o Chunk("z", <<>>)

\* Radii around the degenerate-arc threshold 1e-6, and end offsets below it
\* and above it.
ArcRadii == {0, 9, 10, 20}
ArcEnds == { <<0, 0>>, <<3, 4>>, <<0, 9>>, <<40, 0>>, <<20, 20>> }

\* The arcs whose angles the tabulated acos covers: circles, and ellipses
\* with a chord along the x axis.
ArcTabulated(rx, ry, e) == rx = ry \/ e[2] = 0

\* The radii and end offsets of the arc family.
ArcShapes ==
  {q \in ArcRadii \X ArcRadii \X ArcEnds : ArcTabulated(q[1], q[2], q[3])}

\* Arc family: a move and one absolute or relative arc.
ArcInputs ==
  { Chunk("M", m) \o Chunk(a, <<q[1], q[2], 0, fl * Unit, fs * Unit,
                                 (IF a = "A" THEN m[1] ELSE 0) + q[3][1],
                                 (IF a = "A" THEN m[2] ELSE 0) + q[3][2]>>) :
      m \in {<<0, 0>>, <<100, 200>>}, a \in {"a", "A"},
      fl \in {0, 1}, fs \in {0, 1}, q \in ArcShapes }

\* What follows a close: a relative or absolute line or move, a relative
\* curve, a relative arc (a degenerate one, which is its end point).
AfterClosePieces ==
  { Chunk("l", <<30, 40>>), Chunk("m", <<30, 40>>), Chunk("L", <<30, 40>>),
    Chunk("M", <<30, 40>>), Chunk("c", <<8, 16, 24, 32, 40, 48>>),
    Chunk("a", <<0, 0, 0, 0, 0, 30, 40>>) }

\* After-close family: M 0,0 L e z and one more command.
AfterClose(e, piece) ==
  Chunk("M", <<0, 0>>) \o Chunk("L", e) \o Chunk("z", <<>>) \o piece

AfterCloseInputs ==
  {AfterClose(e, piece) :
     e \in {<<60, 80>>, <<60, 81>>, <<1000, 0>>}, piece \in AfterClosePieces}

GeomInputs ==
  CloseInputs \cup {SquareInput} \cup ArcInputs \cup AfterCloseInputs

\* The transforms a path element may carry.
Transforms == { Identity, <<<<2, 0, 5>>, <<0, 1, -3>>, <<0, 0, 1>>>> }

\* ------------------------------------------------------------------------
\* PathAttribs / PathCommands as a state machine
\* ------------------------------------------------------------------------
PolyIdle ==
  /\ polysIn = <<>> /\ tol = 0 /\ segments = <<>> /\ segments0 = <<>>
  /\ polyline = <<>> /\ closedPolys = <<>> /\ openPolys = <<>>
  /\ rpc = "idle"

\* The attribute lists of an element with path data toks and transform m:
\* the transform attribute before the path data, after it, and (for the
\* identity) absent; an id attribute may come first.
AttribLists(toks, m) ==
  { <<Attrib("transform", m), Attrib("d", toks)>>,
    <<Attrib("d", toks), Attrib("transform", m)>>,
    <<Attrib("id", "path1"), Attrib("d", toks), Attrib("transform", m)>> }
  \cup (IF m = Identity THEN {<<Attrib("d", toks)>>} ELSE {})

\* PathAttribs is called on a path element with the attributes as: line 798
\* has set the identity transform, no token is read yet.
PathStart(as) ==
  /\ attribs = as /\ tokens = <<>> /\ transform = Identity
  /\ cmds = <<>> /\ subpaths = <<>> /\ splitOk = "none" /\ expanded = <<>>
  /\ xi = <<1, 1>> /\ xn = -1 /\ polylines = <<>> /\ p = Zero
  /\ ti = <<1, 1>> /\ pc = "attribs" /\ result = "none" /\ ub = {}

Init ==
  /\ PolyIdle
  /\ \/ \E toks \in StructInputs : PathStart(<<Attrib("d", toks)>>)
     \/ PathStart(<<Attrib("style", "fill:none")>>)
     \/ \E toks \in GeomInputs, m \in Transforms :
          \E as \in AttribLists(toks, m) : PathStart(as)

\* Lines 801-828: the loop over the attributes, to its end.
ReadAttribs ==
  /\ pc = "attribs"
  /\ LET r == AttribLoop(attribs, tokens, transform)
     IN  /\ tokens' = r.tokens
         /\ transform' = r.transform
  /\ attribs' = <<>>
  /\ pc' = "parse"
  /\ UNCHANGED polyVars
  /\ UNCHANGED <<cmds, subpaths, splitOk, expanded, xi, xn, polylines, p, ti,
                 result, ub>>

\* Lines 709-749: the tokens become the flat command list.
Parse ==
  /\ pc = "parse"
  /\ cmds' = ParseCommands(tokens)
  /\ pc' = "split"
  /\ UNCHANGED polyVars
  /\ UNCHANGED attribs
  /\ UNCHANGED <<tokens, transform, subpaths, splitOk, expanded, xi, xn,
                 polylines, p, ti, result, ub>>

\* Where PathCommands goes once ExpandCommands is at command ix of subs.
AfterExpand(subs, ix) ==
  IF ix[1] <= Len(subs) THEN "expand"
  ELSE IF subs = <<>> THEN "transform" ELSE "tess"

\* Line 753: this->SplitSubpaths(cmds, subpaths); the result is dropped.
Split ==
  /\ pc = "split"
  /\ LET r == SplitSubpaths(cmds)
     IN  /\ subpaths' = r.subpaths
         /\ splitOk' = r.ok
         /\ ub' = IF r.hit THEN ub \cup {"back() of an empty vector"} ELSE ub
         /\ pc' = AfterExpand(r.subpaths, <<1, 1>>)
  /\ UNCHANGED polyVars
  /\ UNCHANGED attribs
  /\ UNCHANGED <<tokens, transform, cmds, expanded, xi, xn, polylines, p, ti,
                 result>>

\* SplitSubpaths dies in _subpaths.back() of an empty vector.
SplitCrash ==
  /\ pc = "split"
  /\ SplitSubpaths(cmds).hit
  /\ ub' = ub \cup {"back() of an empty vector"}
  /\ pc' = "crashed"
  /\ UNCHANGED polyVars
  /\ UNCHANGED attribs
  /\ UNCHANGED <<tokens, transform, cmds, subpaths, splitOk, expanded, xi, xn,
                 polylines, p, ti, result>>

\* The command ExpandCommands is at.
XCmd == subpaths[xi[1]][xi[2]]

\* The position after command ix of subs.
NextIndex(subs, ix) ==
  IF ix[2] < Len(subs[ix[1]]) THEN <<ix[1], ix[2] + 1>> ELSE <<ix[1] + 1, 1>>

\* The while test of ExpandCommands with n = n1: stay in the loop, or go on
\* to the next command, the next subpath, or out of ExpandCommands.
ExpandTest(n1) ==
  IF n1 < Len(XCmd.numbers)
  THEN /\ xn' = n1 /\ xi' = xi /\ pc' = "expand"
  ELSE /\ xn' = -1 /\ xi' = NextIndex(subpaths, xi)
       /\ pc' = AfterExpand(subpaths, NextIndex(subpaths, xi))

\* Lines 662-689: a new subpath of _path at the first command of a subpath,
\* numberCount, and the push of a z command.
ExpandCommand ==
  /\ pc = "expand" /\ xn = -1
  /\ LET sub == IF xi[2] = 1 THEN <<>> ELSE expanded[xi[1]]
         new == IF ToLower(XCmd.cmd) = "z" THEN Append(sub, XCmd) ELSE sub
     IN  expanded' = IF xi[2] = 1 THEN Append(expanded, new)
                     ELSE [expanded EXCEPT ![xi[1]] = new]
  /\ ExpandTest(0)
  /\ UNCHANGED polyVars
  /\ UNCHANGED attribs
  /\ UNCHANGED <<tokens, transform, cmds, subpaths, splitOk, polylines, p, ti,
                 result, ub>>

\* Lines 690-700: one round of the while loop, which emits one command.
ExpandGroup ==
  /\ pc = "expand" /\ xn >= 0
  /\ LET count == NumberCount(XCmd.cmd)
         over  == GroupOverrun(XCmd.numbers, xn, count)
     IN  /\ count > 0 \/ Len(expanded[xi[1]]) < MaxEmit
         /\ \E pad \in GarbageSeqs(over) :
              expanded' = [expanded EXCEPT ![xi[1]] =
                 Append(@, Cmd(XCmd.cmd,
                               GroupNumbers(XCmd.numbers, xn, count, pad)))]
         /\ ub' = IF over > 0 THEN ub \cup {"read past the end"} ELSE ub
         /\ ExpandTest(xn + count)
  /\ UNCHANGED polyVars
  /\ UNCHANGED attribs
  /\ UNCHANGED <<tokens, transform, cmds, subpaths, splitOk, polylines, p, ti,
                 result>>

\* ExpandCommands dies reading xCmd.numbers past its end.
ExpandCrash ==
  /\ pc = "expand" /\ xn >= 0
  /\ GroupOverrun(XCmd.numbers, xn, NumberCount(XCmd.cmd)) > 0
  /\ ub' = ub \cup {"read past the end"}
  /\ pc' = "crashed"
  /\ UNCHANGED polyVars
  /\ UNCHANGED attribs
  /\ UNCHANGED <<tokens, transform, cmds, subpaths, splitOk, expanded, xi, xn,
                 polylines, p, ti, result>>

\* The command SubpathToPolyline is at, and the polyline it fills.
TCmd == subpaths[ti[1]][ti[2]]
TPoly == IF ti[2] = 1 THEN <<>> ELSE polylines[ti[1]]

\* A tessellation loop that starts every subpath from a fresh point.
TessAdvanceFresh(poly, last) ==
  /\ polylines' = IF ti[2] = 1 THEN Append(polylines, poly)
                  ELSE [polylines EXCEPT ![ti[1]] = poly]
  /\ p' = IF NextIndex(subpaths, ti)[2] = 1 THEN Zero ELSE last
  /\ ti' = NextIndex(subpaths, ti)
  /\ pc' = IF NextIndex(subpaths, ti)[1] <= Len(subpaths) THEN "tess"
           ELSE "transform"

\* The for loops of lines 494 and 760 move on.
TessAdvance(poly, last) ==
  /\ polylines' = IF ti[2] = 1 THEN Append(polylines, poly)
                  ELSE [polylines EXCEPT ![ti[1]] = poly]
  /\ p' = last
  /\ ti' = NextIndex(subpaths, ti)
  /\ pc' = IF NextIndex(subpaths, ti)[1] <= Len(subpaths) THEN "tess"
           ELSE "transform"

\* Z/z reads front() and back() of an empty polyline.
CloseOnEmpty == ToLower(TCmd.cmd) = "z" /\ TPoly = <<>>

\* One command of the subpath, with a close that moves _last to the first
\* point of the polyline.
TessCommandCloseResets ==
  /\ pc = "tess" /\ ~CloseOnEmpty
  /\ \E pad \in GarbageSeqs(TessOverrun(TCmd)) :
       LET r == TessCmd(TCmd, p, TPoly, pad)
       IN  TessAdvance(r.polyline,
                       IF ToLower(TCmd.cmd) = "z" THEN TPoly[1] ELSE r.last)
  /\ ub' = IF TessOverrun(TCmd) > 0 THEN ub \cup {"read past the end"} ELSE ub
  /\ UNCHANGED polyVars
  /\ UNCHANGED attribs
  /\ UNCHANGED <<tokens, transform, cmds, subpaths, splitOk, expanded, xi, xn,
                 result>>

\* Lines 494-612: one command of the subpath.
TessCommand ==
  /\ pc = "tess" /\ ~CloseOnEmpty
  /\ \E pad \in GarbageSeqs(TessOverrun(TCmd)) :
       LET r == TessCmd(TCmd, p, TPoly, pad)
       IN  TessAdvance(r.polyline, r.last)
  /\ ub' = IF TessOverrun(TCmd) > 0 THEN ub \cup {"read past the end"} ELSE ub
  /\ UNCHANGED polyVars
  /\ UNCHANGED attribs
  /\ UNCHANGED <<tokens, transform, cmds, subpaths, splitOk, expanded, xi, xn,
                 result>>

\* Lines 598-608 on an empty polyline: front() and back() are undefined; the
\* distance test goes either way, and a push copies an arbitrary point.
TessCloseEmpty ==
  /\ pc = "tess" /\ CloseOnEmpty
  /\ \/ TessAdvance(TPoly, p)
     \/ \E g \in Garbage : TessAdvance(<<Pt(g, g)>>, p)
  /\ ub' = ub \cup {"front() of an empty vector"}
  /\ UNCHANGED polyVars
  /\ UNCHANGED attribs
  /\ UNCHANGED <<tokens, transform, cmds, subpaths, splitOk, expanded, xi, xn,
                 result>>

\* SubpathToPolyline dies in one of its undefined reads.
TessCrash ==
  /\ pc = "tess"
  /\ \/ /\ CloseOnEmpty
        /\ ub' = ub \cup {"front() of an empty vector"}
     \/ /\ TessOverrun(TCmd) > 0
        /\ ub' = ub \cup {"read past the end"}
  /\ pc' = "crashed"
  /\ UNCHANGED polyVars
  /\ UNCHANGED attribs
  /\ UNCHANGED <<tokens, transform, cmds, subpaths, splitOk, expanded, xi, xn,
                 polylines, p, ti, result>>

\* Lines 767-785: the transform, and return true.
Finish ==
  /\ pc = "transform"
  /\ polylines' = ApplyTransform(transform, polylines)
  /\ result' = TRUE
  /\ pc' = "done"
  /\ UNCHANGED polyVars
  /\ UNCHANGED attribs
  /\ UNCHANGED <<tokens, transform, cmds, subpaths, splitOk, expanded, xi, xn,
                 p, ti, ub>>

PathNext ==
  \/ ReadAttribs
  \/ Parse \/ Split \/ SplitCrash
  \/ ExpandCommand \/ ExpandGroup \/ ExpandCrash
  \/ TessCommand \/ TessCloseEmpty \/ TessCrash
  \/ Finish

Next == PathNext

Spec == Init /\ [][Next]_vars

\* ========================================================================
\* SVGLoader::PathsToClosedPolylines
\* ========================================================================
\* Vector2dCompare with <= in the place of <.
Vector2dCompareLoose(a, b, t) ==
  LET x == a[1] - b[1]
      y == a[2] - b[2]
  IN  x * x + y * y <= t * t

\* Vector2dCompare(_a, _b, _tol).
Vector2dCompare(a, b, t) ==
  LET x == a[1] - b[1]
      y == a[2] - b[2]
  IN  x * x + y * y < t * t

\* Lines 1106-1121: the segments of one polyline (which has a first point).
RECURSIVE SegmentLoop(_, _, _, _, _)
SegmentLoop(poly, i, startPoint, t, segs) ==
  IF i > Len(poly) THEN segs
  ELSE IF DistLT(poly[i], startPoint, t)
       THEN SegmentLoop(poly, i + 1, startPoint, t, segs)
       ELSE SegmentLoop(poly, i + 1, poly[i], t,
                        Append(segs, <<startPoint, poly[i]>>))

\* Lines 1102-1123: the segments of all polylines, in order.  For a
\* polyline without points poly[0] is undefined; where the process survives
\* the read, startPoint is never used, as the for loop of line 1107 does not
\* run.
RECURSIVE ExtractSegments(_, _, _)
ExtractSegments(polys, t, segs) ==
  IF polys = <<>> THEN segs
  ELSE IF Head(polys) = <<>> THEN ExtractSegments(Tail(polys), t, segs)
  ELSE ExtractSegments(Tail(polys), t,
                       SegmentLoop(Head(polys), 2, Head(polys)[1], t, segs))

\* Line 1106 reads poly[0] of a polyline that has no point.
ReadsEmptyPoly(polys) == \E k \in 1..Len(polys) : polys[k] = <<>>

\* Lines 1149-1158 for one segment: does it continue the chain at back?
SegmentMatches(back, seg, t) ==
  Vector2dCompare(back, seg[1], t) \/ Vector2dCompare(back, seg[2], t)

\* nextPoint without the second test: always the segment's second point.
NextPointSecond(back, seg, t) == seg[2]

\* nextPoint for a segment that matches: the second test overrides the first.
NextPoint(back, seg, t) ==
  IF Vector2dCompare(back, seg[2], t) THEN seg[1] ELSE seg[2]

\* Lines 1145-1175: the first segment of the list that continues the chain,
\* 0 when the for loop ends without one.
FindSegment(back, segs, t) ==
  IF \E k \in 1..Len(segs) : SegmentMatches(back, segs[k], t)
  THEN CHOOSE k \in 1..Len(segs) :
         /\ SegmentMatches(back, segs[k], t)
         /\ \A j \in 1..(k - 1) : ~SegmentMatches(back, segs[j], t)
  ELSE 0

\* An erase that also drops every segment after it.
EraseFrom(segs, k) == SubSeq(segs, 1, k - 1)

\* segments.erase(it).
EraseAt(segs, k) == [j \in 1..(Len(segs) - 1) |->
                       IF j < k THEN segs[j] ELSE segs[j + 1]]

\* ---- inputs: edges of a square, one corner of one edge displaced ----
Corner(k) ==
  CASE k = 1 -> Pt(0, 0) [] k = 2 -> Pt(Side, 0)
    [] k = 3 -> Pt(Side, Side) [] k = 4 -> Pt(0, Side)

\* Edge k of the square, from corner k to the next; the start of edge 2 is
\* moved by eps along x.
Edge(k, eps) ==
  <<IF k = 2 THEN Pt(Side + eps, 0) ELSE Corner(k), Corner((k % 4) + 1)>>

Reverse2(e) == <<e[2], e[1]>>

\* Sequences of distinct edges.
EdgeOrders ==
  {es \in SeqsUpTo(1..4, 4) :
     \A i, j \in 1..Len(es) : i # j => es[i] # es[j]}

\* The edges es, each a two-point polyline, edge k reversed when flip[k].
EdgePolys(es, flip, eps) ==
  [i \in 1..Len(es) |->
     IF flip[es[i]] THEN Reverse2(Edge(es[i], eps)) ELSE Edge(es[i], eps)]

\* Points on a line, at distances 1, 2 and 3 from each other.
LinePts == {Pt(0, 0), Pt(1, 0), Pt(3, 0)}

\* Second family: a polyline of at most MaxPts points (none is what the
\* tessellation of a move without numbers leaves), alone or followed by a
\* polyline of one or two points.
LineInputs ==
  {<<a>> \o (IF b = <<>> THEN <<>> ELSE <<b>>) :
     a \in SeqsUpTo(LinePts, MaxPts), b \in SeqsUpTo(LinePts, 2)}

PathIdle ==
  /\ attribs = <<>> /\ tokens = <<>> /\ transform = Identity
  /\ cmds = <<>> /\ subpaths = <<>> /\ splitOk = "none" /\ expanded = <<>>
  /\ xi = <<1, 1>> /\ xn = -1 /\ polylines = <<>> /\ p = Zero
  /\ ti = <<1, 1>> /\ pc = "idle" /\ result = "none" /\ ub = {}

\* PathsToClosedPolylines is called with the polylines polys and _tol = t.
PolyStart(polys, t) ==
  /\ polysIn = polys /\ tol = t
  /\ segments = <<>> /\ segments0 = <<>> /\ polyline = <<>>
  /\ closedPolys = <<>> /\ openPolys = <<>> /\ rpc = "extract"

PolyInit ==
  /\ PathIdle
  /\ \/ \E es \in EdgeOrders, flip \in [1..4 -> BOOLEAN], eps \in 0..MaxEps,
           t \in 1..(Side + 1) :
          PolyStart(EdgePolys(es, flip, eps), t)
     \/ \E polys \in LineInputs, t \in 1..(Side + 1) : PolyStart(polys, t)

\* Lines 1098-1123.
Extract ==
  /\ rpc = "extract"
  /\ segments' = ExtractSegments(polysIn, tol, <<>>)
  /\ segments0' = segments'
  /\ ub' = IF ReadsEmptyPoly(polysIn)
           THEN ub \cup {"operator[] of an empty vector"} ELSE ub
  /\ rpc' = "loop"
  /\ UNCHANGED <<attribs, tokens, transform, cmds, subpaths, splitOk,
                 expanded, xi, xn, polylines, p, ti, pc, result>>
  /\ UNCHANGED <<polysIn, tol, polyline, closedPolys, openPolys>>

\* PathsToClosedPolylines dies reading poly[0] of a polyline without points.
ExtractCrash ==
  /\ rpc = "extract"
  /\ ReadsEmptyPoly(polysIn)
  /\ ub' = ub \cup {"operator[] of an empty vector"}
  /\ rpc' = "crashed"
  /\ UNCHANGED <<attribs, tokens, transform, cmds, subpaths, splitOk,
                 expanded, xi, xn, polylines, p, ti, pc, result>>
  /\ UNCHANGED <<polysIn, tol, segments, segments0, polyline, closedPolys,
                 openPolys>>

\* Lines 1126-1140: a new chain from the first remaining segment.
SeedChain ==
  /\ rpc = "loop" /\ segments # <<>>
  /\ polyline' = <<Head(segments)[1], Head(segments)[2]>>
  /\ segments' = Tail(segments)
  /\ rpc' = "search"
  /\ UNCHANGED pathVars
  /\ UNCHANGED <<polysIn, tol, segments0, closedPolys, openPolys>>

\* Lines 1141-1176, a round that finds a segment and does not close the
\* chain.
ExtendChain ==
  /\ rpc = "search"
  /\ LET back == polyline[Len(polyline)]
         k    == FindSegment(back, segments, tol)
     IN  /\ k # 0
         /\ ~Vector2dCompare(NextPoint(back, segments[k], tol), polyline[1], tol)
         /\ polyline' = Append(polyline, NextPoint(back, segments[k], tol))
         /\ segments' = EraseAt(segments, k)
  /\ UNCHANGED pathVars
  /\ UNCHANGED <<polysIn, tol, segments0, closedPolys, openPolys, rpc>>

\* Lines 1141-1181, a round that finds a segment whose far end is the start
\* of the chain: loopClosed, and the chain goes to _closedPolys.
CloseChain ==
  /\ rpc = "search"
  /\ LET back == polyline[Len(polyline)]
         k    == FindSegment(back, segments, tol)
     IN  /\ k # 0
         /\ Vector2dCompare(NextPoint(back, segments[k], tol), polyline[1], tol)
         /\ closedPolys' =
              Append(closedPolys,
                     Append(polyline, NextPoint(back, segments[k], tol)))
         /\ segments' = EraseAt(segments, k)
  /\ polyline' = <<>>
  /\ rpc' = "loop"
  /\ UNCHANGED pathVars
  /\ UNCHANGED <<polysIn, tol, segments0, openPolys>>

\* Lines 1141-1188, a round that finds no segment: the chain goes to
\* _openPolys.
EndOpenChain ==
  /\ rpc = "search"
  /\ FindSegment(polyline[Len(polyline)], segments, tol) = 0
  /\ openPolys' = Append(openPolys, polyline)
  /\ polyline' = <<>>
  /\ rpc' = "loop"
  /\ UNCHANGED pathVars
  /\ UNCHANGED <<polysIn, tol, segments, segments0, closedPolys>>

\* Line 1126: no segment is left, the function returns.
ReturnPolys ==
  /\ rpc = "loop" /\ segments = <<>>
  /\ rpc' = "done"
  /\ UNCHANGED pathVars
  /\ UNCHANGED <<polysIn, tol, segments, segments0, polyline, closedPolys,
                 openPolys>>

PolyNext ==
  \/ Extract \/ ExtractCrash \/ SeedChain \/ ExtendChain \/ CloseChain \/ EndOpenChain
  \/ ReturnPolys

SpecPoly == PolyInit /\ [][PolyNext]_vars

\* ========================================================================
\* Properties of the path pipeline (checked under Spec)
\* ========================================================================
\* PathCommands is past its parsing loop.
Parsed == pc \notin {"attribs", "parse"}

\* SplitSubpaths has run.
SplitDone == pc \notin {"attribs", "parse", "split"}

\* ExpandCommands has returned.
ExpandDone == pc \in {"tess", "transform", "done"}

\* C1: a path whose path data yields zero commands fails: PathCommands
\* returns false to its caller, and nothing crashes.
C1_ZeroCommandsFail ==
  (Parsed /\ cmds = <<>>) =>
     /\ pc # "crashed"
     /\ pc = "done" => result = FALSE

\* C2: for a non-empty command list whose first command is not a move, the
\* splitter returns false and never reads the last element of an empty
\* subpath collection.
C2_FirstNotMoveRejected ==
  (SplitDone /\ cmds # <<>> /\ ToLower(cmds[1].cmd) # "m") =>
     /\ splitOk = FALSE
     /\ "back() of an empty vector" \notin ub

\* The arity table of the claim: move 2, line 2, cubic curve 6, arc 7.
Arity(c) == TessGroup(c)

\* Every emitted command has its arity of arguments, a close has none.
EmittedOK ==
  \A s \in 1..Len(expanded) : \A k \in 1..Len(expanded[s]) :
     LET c == expanded[s][k]
     IN  /\ ToLower(c.cmd) = "z" => c.numbers = <<>>
         /\ Arity(c.cmd) > 0 => Len(c.numbers) = Arity(c.cmd)

\* Every raw command has a multiple of its arity of arguments.
RawOK ==
  \A s \in 1..Len(subpaths) : \A k \in 1..Len(subpaths[s]) :
     LET c == subpaths[s][k]
     IN  Arity(c.cmd) > 0 => Len(c.numbers) % Arity(c.cmd) = 0

\* C3: after expansion every emitted command has exactly its arity of
\* arguments or is a close with none; a raw command whose argument count
\* is not a multiple of its arity is rejected before tessellation, and no
\* argument list is read past its end.
C3_ArityOrRejected ==
  /\ "read past the end" \notin ub
  /\ ExpandDone => (EmittedOK /\ RawOK)

\* SubpathToPolyline runs the command it is at and returns from it.
TessStep == pc = "tess" /\ pc' \in {"tess", "transform"}

\* The polyline of the subpath being tessellated, after the step.
PolyAfter == polylines'[ti[1]]

\* a is not farther than 1e-5 from b.
Within1e5(a, b) ==
  /\ Abs(a[1] - b[1]) <= CloseEps
  /\ Abs(a[2] - b[2]) <= CloseEps
  /\ (a[1] - b[1]) * (a[1] - b[1]) + (a[2] - b[2]) * (a[2] - b[2])
       <= CloseEps * CloseEps

\* A close command on a polyline that has points.
CloseStep == TessStep /\ ToLower(TCmd.cmd) = "z" /\ TPoly # <<>>

\* The square of the example, tessellated.
SquarePolyline ==
  <<Pt(0, 0), Pt(10 * Unit, 0), Pt(10 * Unit, 10 * Unit), Pt(0, 10 * Unit),
    Pt(0, 0)>>

\* C7: a close command appends a copy of the polyline's first point exactly
\* when the last point is farther than 1e-5 from the first, and otherwise
\* leaves the polyline as it is; the current point stays.  The path
\* M 0,0 L 10,0 L 10,10 L 0,10 z becomes the five points
\* (0,0) (10,0) (10,10) (0,10) (0,0).
C7_CloseAppendsWhenFar ==
  /\ [][CloseStep =>
          /\ PolyAfter = IF Within1e5(TPoly[Len(TPoly)], TPoly[1])
                         THEN TPoly
                         ELSE Append(TPoly, TPoly[1])
          /\ p' = p]_vars
  /\ [](pc = "transform" /\ tokens = SquareInput
          => polylines = <<SquarePolyline>>)

\* M 0,0 L 60e-7,81e-7 z z: the first close appends, the second adds nothing.
C7_Witness ==
  /\ pc = "transform"
  /\ tokens = Chunk("M", <<0, 0>>) \o Chunk("L", <<60, 81>>)
                \o Chunk("z", <<>>) \o Chunk("z", <<>>)
  /\ polylines = <<<<Pt(0, 0), Pt(60, 81), Pt(0, 0)>>>>

\* An arc command with its seven numbers.
ArcStep == TessStep /\ TCmd.cmd \in {"a", "A"} /\ Len(TCmd.numbers) = 7

\* The end point of the arc command.
ArcEnd ==
  IF TCmd.cmd = "A" THEN Pt(TCmd.numbers[6], TCmd.numbers[7])
  ELSE Pt(TCmd.numbers[6] + p[1], TCmd.numbers[7] + p[2])

\* rx < 1e-6, or ry < 1e-6, or the start is closer than 1e-6 to the end.
ArcDegenerate ==
  \/ TCmd.numbers[1] < ArcEps
  \/ TCmd.numbers[2] < ArcEps
  \/ /\ Abs(p[1] - ArcEnd[1]) < ArcEps
     /\ Abs(p[2] - ArcEnd[2]) < ArcEps
     /\ (p[1] - ArcEnd[1]) * (p[1] - ArcEnd[1])
          + (p[2] - ArcEnd[2]) * (p[2] - ArcEnd[2]) < ArcEps * ArcEps

\* C8: an absolute or relative arc command with rx < 1e-6, or ry < 1e-6, or
\* a start-to-end distance < 1e-6 appends exactly one point, the arc's end
\* point, and the current point becomes that end point.
C8_DegenerateArcIsEndPoint ==
  [][(ArcStep /\ ArcDegenerate) =>
        /\ PolyAfter = Append(TPoly, ArcEnd)
        /\ p' = ArcEnd]_vars

\* M 100,200 a 20,20 0 0 0 3,4: the radii are fine, the chord is 5e-7 long.
C8_Witness ==
  /\ pc = "transform"
  /\ tokens = Chunk("M", <<100, 200>>)
                \o Chunk("a", <<20, 20, 0, 0, 0, 3, 4>>)
  /\ polylines = <<<<Pt(100, 200), Pt(103, 204)>>>>
  /\ p = Pt(103, 204)

\* The commands the tessellator knows: move, line, cubic curve, arc, close.
Supported(c) == ToLower(c) \in {"m", "l", "c", "a", "z"}

\* C9: a path with a command whose letter is not move, line, cubic curve,
\* arc or close is processed to the end: every round of the expander's
\* while loop for such a command moves n on towards the command's number
\* count, and the tessellator steps over the command with
\* the polyline and the current point as they were.
C9_UnsupportedSkipped ==
  /\ [](pc = "expand" /\ xn >= 0 /\ ~Supported(XCmd.cmd)
          => NumberCount(XCmd.cmd) > 0)
  /\ [][(TessStep /\ ~Supported(TCmd.cmd)) =>
          (PolyAfter = TPoly /\ p' = p)]_vars

\* ========================================================================
\* Properties of the reconstructor (checked under SpecPoly)
\* ========================================================================
\* The inputs made of the edges es of the exact square, in every order and
\* every orientation.
SquareEdgeInputs(n) ==
  {EdgePolys(es, flip, 0) :
     es \in {e \in EdgeOrders : Len(e) = n}, flip \in [1..4 -> BOOLEAN]}

\* The edges of all chains of a list.
RECURSIVE EdgeCount(_)
EdgeCount(chains) ==
  IF chains = <<>> THEN 0
  ELSE (Len(Head(chains)) - 1) + EdgeCount(Tail(chains))

\* C4: the four edges of a square, as four two-point polylines in any order
\* and any orientation, with tol below the edge length, give exactly one
\* closed chain of 5 points whose last point is its first, and no open
\* chain.
C4_SquareCloses ==
  (rpc = "done" /\ polysIn \in SquareEdgeInputs(4) /\ tol < Side) =>
     /\ Len(closedPolys) = 1
     /\ Len(closedPolys[1]) = 5
     /\ closedPolys[1][5] = closedPolys[1][1]
     /\ openPolys = <<>>

\* Edge 3 backwards, edge 1, edge 4, edge 2 backwards.
C4_Witness ==
  /\ rpc = "done" /\ tol = Side - 1
  /\ polysIn = <<Reverse2(Edge(3, 0)), Edge(1, 0), Edge(4, 0),
                 Reverse2(Edge(2, 0))>>
  /\ closedPolys = <<<<Corner(4), Corner(3), Corner(2), Corner(1),
                       Corner(4)>>>>
  /\ openPolys = <<>>

\* C5: any three of the four edges of a square, in any order and any
\* orientation, give no closed chain and exactly one open chain of 4
\* points.
C5_ThreeEdgesOneOpenChain ==
  (rpc = "done" /\ polysIn \in SquareEdgeInputs(3) /\ tol < Side) =>
     /\ closedPolys = <<>>
     /\ Len(openPolys) = 1
     /\ Len(openPolys[1]) = 4

\* Edges 1 and 2 of the square, which share corner 2 up to the offset eps,
\* in either order and every orientation.
SharedEndInputs(eps) ==
  {EdgePolys(es, flip, eps) :
     es \in {<<1, 2>>, <<2, 1>>}, flip \in [1..4 -> BOOLEAN]}

\* C6: two segments, each at least tol long, that share an end point up to
\* an offset eps, whichever end of each is the shared one and whichever
\* comes first: for eps < tol they become one chain of 3 points, for
\* eps > tol they stay two chains of 2 points.
C6_MergeIffWithinTol ==
  \A eps \in 0..MaxEps :
    (rpc = "done" /\ polysIn \in SharedEndInputs(eps) /\ tol <= Side) =>
       /\ eps < tol =>
            /\ Len(closedPolys) + Len(openPolys) = 1
            /\ Len((closedPolys \o openPolys)[1]) = 3
       /\ eps > tol =>
            /\ Len(closedPolys) + Len(openPolys) = 2
            /\ \A k \in 1..2 : Len((closedPolys \o openPolys)[k]) = 2

\* C10: every segment of the initial set is used in exactly one chain: the
\* segments still in the list, the edges of the chain under construction
\* and the edges of the chains added so far are together as many as the
\* initial segments, and on return the list is empty.
C10_SegmentsConserved ==
  /\ rpc \in {"loop", "search", "done"} =>
       Len(segments) + (IF rpc = "search" THEN Len(polyline) - 1 ELSE 0)
         + EdgeCount(closedPolys) + EdgeCount(openPolys) = Len(segments0)
  /\ rpc = "done" => segments = <<>>

\* Three edges that end as two open chains: all three segments are used.
C10_Witness ==
  /\ rpc = "done" /\ Len(segments0) = 3 /\ segments = <<>>
  /\ closedPolys = <<>> /\ Len(openPolys) = 2
  /\ EdgeCount(openPolys) = 3

\* The squared distance of a and b is below t squared.
WithinTol(a, b, t) ==
  (a[1] - b[1]) * (a[1] - b[1]) + (a[2] - b[2]) * (a[2] - b[2]) < t * t

\* C11: every chain in the closed collection has its first and last points
\* within tol of each other (squared distance < tol squared), and every
\* chain in the open collection has them not within tol.
C11_ClosedIffEndsMeet ==
  /\ \A k \in 1..Len(closedPolys) :
       WithinTol(closedPolys[k][1], closedPolys[k][Len(closedPolys[k])], tol)
  /\ \A k \in 1..Len(openPolys) :
       ~WithinTol(openPolys[k][1], openPolys[k][Len(openPolys[k])], tol)

\* The square with its displaced corner first: the chain starts at the
\* displaced corner and closes on the exact one, 1 away with tol = 2.
C11_Witness ==
  /\ rpc = "done" /\ tol = 2
  /\ polysIn = EdgePolys(<<2, 3, 4, 1>>, [k \in 1..4 |-> FALSE], 1)
  /\ closedPolys = <<<<Pt(Side + 1, 0), Corner(3), Corner(4), Corner(1),
                       Corner(2)>>>>
  /\ openPolys = <<>>

\* The consecutive pairs of poly from index i on that are at least t apart.
RECURSIVE AdjacentPairs(_, _, _)
AdjacentPairs(poly, i, t) ==
  IF i >= Len(poly) THEN <<>>
  ELSE (IF WithinTol(poly[i], poly[i + 1], t) THEN <<>>
        ELSE <<<<poly[i], poly[i + 1]>>>>)
       \o AdjacentPairs(poly, i + 1, t)

\* The pairs of all polylines, in polyline order.
AllAdjacentPairs(polys, t) ==
  Flatten([k \in 1..Len(polys) |-> AdjacentPairs(polys[k], 1, t)])

\* C17: the initial segment set is exactly the pairs (poly[i], poly[i+1])
\* of consecutive points of each polyline that are at least tol apart, in
\* polyline order; closer pairs are dropped and no segment joins points
\* that are not adjacent in their polyline.
C17_SegmentsAreAdjacentPairs ==
  rpc \in {"loop", "search", "done"} =>
     segments0 = AllAdjacentPairs(polysIn, tol)

\* The value of the attribute named n among the attributes as, dflt when
\* there is none (an element has at most one attribute of a name).
AttribValue(as, n, dflt) ==
  IF \E k \in 1..Len(as) : as[k].name = n
  THEN (CHOOSE a \in {as[k] : k \in 1..Len(as)} : a.name = n).value
  ELSE dflt

\* The matrix m applied to the homogeneous point (x, y, 1).
Affine(m, q) ==
  Pt(m[1][1] * q[1] + m[1][2] * q[2] + m[1][3],
     m[2][1] * q[1] + m[2][2] * q[2] + m[2][3])

\* C12: a path without a transform attribute keeps every point of every
\* polyline as tessellated, and a path with a transform that is not the
\* identity has it applied once to every point of every polyline, wherever
\* the transform attribute stands relative to the path data.
C12_TransformAppliedOnce ==
  /\ [][pc = "attribs" =>
          /\ tokens' = AttribValue(attribs, "d", <<>>)
          /\ transform' = AttribValue(attribs, "transform", Identity)]_vars
  /\ [][(pc = "transform" /\ pc' = "done") =>
          /\ Len(polylines') = Len(polylines)
          /\ \A k \in 1..Len(polylines) :
               /\ Len(polylines'[k]) = Len(polylines[k])
               /\ \A j \in 1..Len(polylines[k]) :
                    polylines'[k][j] = Affine(transform, polylines[k][j])
          /\ transform = Identity => polylines' = polylines]_vars
  /\ [][pc = "done" => polylines' = polylines]_vars

\* The square under x' = 2x + 5e-7, y' = y - 3e-7.
C12_Witness ==
  /\ pc = "done" /\ tokens = SquareInput
  /\ transform = <<<<2, 0, 5>>, <<0, 1, -3>>, <<0, 0, 1>>>>
  /\ polylines = <<<<Pt(5, -3), Pt(20 * Unit + 5, -3),
                     Pt(20 * Unit + 5, 10 * Unit - 3), Pt(5, 10 * Unit - 3),
                     Pt(5, -3)>>>>

\* The command c is a move.
IsMove(c) == ToLower(c.cmd) = "m"

\* The arity-sized slices of the numbers of c, each under the letter of c.
Slices(c) ==
  [i \in 1..(Len(c.numbers) \div Arity(c.cmd)) |->
     Cmd(c.cmd, SubSeq(c.numbers, (i - 1) * Arity(c.cmd) + 1,
                       i * Arity(c.cmd)))]

\* What the claim expects for one raw command, and for a subpath.
ExpectedCmds(c) == IF ToLower(c.cmd) = "z" THEN <<c>> ELSE Slices(c)
ExpectedSubpath(sub) ==
  Flatten([k \in 1..Len(sub) |-> ExpectedCmds(sub[k])])

\* A close without numbers, or a command of the arity table with a nonzero
\* multiple of its arity of numbers.
WellFormedRaw(c) ==
  \/ ToLower(c.cmd) = "z" /\ c.numbers = <<>>
  \/ /\ Arity(c.cmd) > 0 /\ c.numbers # <<>>
     /\ Len(c.numbers) % Arity(c.cmd) = 0

\* Every raw command of the path is well formed.
AllWellFormed ==
  \A s \in 1..Len(subpaths) : \A k \in 1..Len(subpaths[s]) :
     WellFormedRaw(subpaths[s][k])

\* C13: a raw command with k numbers, k a nonzero multiple of its arity,
\* is expanded into k / arity commands of the same letter, the i-th with
\* the i-th slice of arity numbers; a close is emitted once, unchanged;
\* the order of the commands of a subpath is kept.
C13_ExpandSlices ==
  (ExpandDone /\ ub = {} /\ AllWellFormed) =>
     expanded = [s \in 1..Len(subpaths) |-> ExpectedSubpath(subpaths[s])]

\* m 10,20 l 30,40,50,60 z.
C13_Witness ==
  /\ pc = "tess"
  /\ tokens = Chunk("m", <<10, 20>>) \o Chunk("l", <<30, 40, 50, 60>>)
                \o Chunk("z", <<>>)
  /\ expanded = <<<<Cmd("m", <<10, 20>>), Cmd("l", <<30, 40>>),
                    Cmd("l", <<50, 60>>), Cmd("z", <<>>)>>>>

\* C14: for a command list that starts with a move, the subpaths are a
\* partition of the list: their concatenation is the list, there are as
\* many subpaths as moves, and every subpath starts with a move and has no
\* other move.
C14_SplitIsPartition ==
  (SplitDone /\ cmds # <<>> /\ IsMove(cmds[1])) =>
     /\ splitOk = TRUE
     /\ Flatten(subpaths) = cmds
     /\ Len(subpaths) = Cardinality({i \in 1..Len(cmds) : IsMove(cmds[i])})
     /\ \A s \in 1..Len(subpaths) :
          /\ subpaths[s] # <<>>
          /\ \A k \in 1..Len(subpaths[s]) : IsMove(subpaths[s][k]) <=> k = 1

\* m 10,20 l 30,40 M 300,400.
C14_Witness ==
  /\ SplitDone
  /\ cmds = <<Cmd("m", <<10, 20>>), Cmd("l", <<30, 40>>),
              Cmd("M", <<300, 400>>)>>
  /\ subpaths = <<<<Cmd("m", <<10, 20>>), Cmd("l", <<30, 40>>)>>,
                  <<Cmd("M", <<300, 400>>)>>>>

\* The positions of the tokens of toks that start with a letter of set.
LetterIdx(toks, set) == {i \in 1..Len(toks) : toks[i].first \in set}

\* The k-th of them.
NthLetter(toks, set, k) ==
  CHOOSE i \in LetterIdx(toks, set) :
    Cardinality({j \in LetterIdx(toks, set) : j <= i}) = k

\* The first position after i that starts a command, or the end.
NextLetter(toks, set, i) ==
  IF \E j \in LetterIdx(toks, set) : j > i
  THEN CHOOSE j \in LetterIdx(toks, set) :
         j > i /\ \A h \in LetterIdx(toks, set) : h > i => j <= h
  ELSE Len(toks) + 1

\* The numbers of a token that starts no command: its atof values, and
\* atof's 0 for a lone letter.
TokNumbers(tok) == IF tok.first \in Lookup THEN <<0>> ELSE tok.nums

\* One command per token that starts with a letter of set, with the
\* numbers of the tokens up to the next such token.
ExpectedParse(toks, set) ==
  [k \in 1..Cardinality(LetterIdx(toks, set)) |->
     LET i == NthLetter(toks, set, k)
     IN  Cmd(toks[i].first,
             Flatten([j \in 1..(NextLetter(toks, set, i) - i - 1) |->
                        TokNumbers(toks[i + j])]))]

\* The letters a, c, m, l, v, h, z and a, c, m, q, l, v, h, z, in both
\* cases.
SevenLetters ==
  {"a", "A", "c", "C", "m", "M", "l", "L", "v", "V", "h", "H", "z", "Z"}
EightLetters == SevenLetters \cup {"q", "Q"}

\* C16 as stated: a token starts a command exactly when its first character
\* is one of a, c, m, l, v, h, z in either case; every other token is
\* numbers for the command in progress; there is one command per letter
\* token, in order, with the numbers up to the next letter token.
C16_ParserSevenLetters ==
  Parsed => cmds = ExpectedParse(tokens, SevenLetters)

\* C16 amended: the same with the letters a, c, m, q, l, v, h, z.
C16_ParserEightLetters ==
  Parsed => cmds = ExpectedParse(tokens, EightLetters)

\* m 10,20 q 70,80: q starts a command of its own.
C16_Witness ==
  /\ Parsed
  /\ tokens = Chunk("m", <<10, 20>>) \o Chunk("q", <<70, 80>>)
  /\ cmds = <<Cmd("m", <<10, 20>>), Cmd("q", <<70, 80>>)>>

\* The last point of a polyline.
LastPt(poly) == poly[Len(poly)]

\* A subpath of well-formed moves, lines and curves only.
PlainSubpath(sub) ==
  \A k \in 1..Len(sub) :
     ToLower(sub[k].cmd) \in {"m", "l", "c"} /\ WellFormedRaw(sub[k])

\* C15: the current point persists across the subpaths of a path.  The
\* first subpath starts from (0,0); a subpath that begins with a relative
\* move starts at the current point left by the previous subpath plus the
\* move's pair, one that begins with an absolute move at that pair; there
\* is one polyline per subpath, in the same order.
C15_CurrentPointPersists ==
  /\ [](pc = "tess" /\ ti = <<1, 1>> => p = Zero)
  /\ [](pc = "tess" /\ ti[2] = 1 /\ ti[1] > 1 /\ ub = {}
          /\ PlainSubpath(subpaths[ti[1] - 1])
          => p = LastPt(polylines[ti[1] - 1]))
  /\ [][(TessStep /\ ti[2] = 1 /\ IsMove(TCmd) /\ WellFormedRaw(TCmd)) =>
          PolyAfter[1] =
            IF TCmd.cmd = "m"
            THEN Pt(p[1] + TCmd.numbers[1], p[2] + TCmd.numbers[2])
            ELSE Pt(TCmd.numbers[1], TCmd.numbers[2])]_vars
  /\ [](pc \in {"transform", "done"} => Len(polylines) = Len(subpaths))
  /\ [](pc = "tess" => Len(polylines) \in {ti[1] - 1, ti[1]})

\* m 10,20 l 30,40 m 10,20: the second subpath starts at (40,60) + (10,20).
C15_Witness ==
  /\ pc = "transform"
  /\ tokens = Chunk("m", <<10, 20>>) \o Chunk("l", <<30, 40>>)
                \o Chunk("m", <<10, 20>>)
  /\ polylines = <<<<Pt(10, 20), Pt(40, 60)>>, <<Pt(50, 80)>>>>

\* Where the piece after the close ends when it starts from the point e.
AfterClosePoint(e, piece) ==
  IF piece[1].first \in {"L", "M"} THEN Pt(30, 40)
  ELSE IF piece[1].first = "c" THEN Pt(e[1] + 40, e[2] + 48)
  ELSE Pt(e[1] + 30, e[2] + 40)

\* C20: a close leaves the current point where it is, whether or not it
\* appends a point; a relative move, line, curve or arc after the close, in
\* the same or the next subpath, is offset from the end point of the last
\* drawing command before the close.
C20_CloseKeepsCurrentPoint ==
  /\ [][(TessStep /\ ToLower(TCmd.cmd) = "z" /\ TPoly # <<>>) =>
          p' = p]_vars
  /\ [](\A e \in {<<60, 80>>, <<60, 81>>, <<1000, 0>>} :
        \A piece \in AfterClosePieces :
          (pc = "transform" /\ tokens = AfterClose(e, piece)) =>
             /\ LastPt(polylines[Len(polylines)]) = AfterClosePoint(e, piece)
             /\ p = AfterClosePoint(e, piece))

\* M 0,0 L 60e-7,81e-7 z l 30e-7,40e-7: the close appends (0,0), the line
\* goes on from (60,81).
C20_Witness ==
  /\ pc = "transform"
  /\ tokens = AfterClose(<<60, 81>>, Chunk("l", <<30, 40>>))
  /\ polylines = <<<<Pt(0, 0), Pt(60, 81), Pt(0, 0), Pt(90, 121)>>>>
  /\ p = Pt(90, 121)

\* The arc command at hand is past arcPath's degenerate test.
ArcCurveStep ==
  /\ pc = "tess" /\ TCmd.cmd \in {"a", "A"} /\ Len(TCmd.numbers) = 7
  /\ ~ArcDegenerate

\* Lines 405-422 for the centre c: the delta angle as the guard finds it.
DeltaAtGuard(f, r, c, largeArc) ==
  LET u == Direction(<<(f.x1p2 - c.cxp2) * r.ry, (f.y1p2 - c.cyp2) * r.rx>>)
      v == Direction(<<(-f.x1p2 - c.cxp2) * r.ry, (-f.y1p2 - c.cyp2) * r.rx>>)
  IN  LargeArcDelta(VecAng(u, v), largeArc)

\* The frame, the radii and the centre of the arc command at hand.
StepFrame == ArcFrame(p, ArcEnd, TCmd.numbers[3])
StepRadii == ArcScale(StepFrame, TCmd.numbers[1], TCmd.numbers[2])
StepLarge == ToUnsigned(TCmd.numbers[4])
StepSweep == ToUnsigned(TCmd.numbers[5])
StepCentre ==
  ArcCentre(StepFrame, StepRadii,
            ArcRoot(StepFrame, StepRadii, StepLarge, StepSweep), p, ArcEnd)

\* Its delta angle before the guard and after it.
StepDeltaBefore == DeltaAtGuard(StepFrame, StepRadii, StepCentre, StepLarge)
StepDeltaAfter ==
  ArcAngles(StepFrame, StepRadii, StepCentre, StepLarge, StepSweep).da

\* C18: the half-circle guard changes the delta angle only when
\* |pi - |delta|| < 0.001, to +pi if the sweep flag is set and to -pi
\* otherwise; every delta with |pi - |delta|| >= 0.001, large arcs
\* included, is left as it is.
C18_GuardOnlyNearHalfCircle ==
  ArcCurveStep =>
     StepDeltaAfter =
       IF Abs(PiT - Abs(StepDeltaBefore)) < HalfCircleEps
       THEN (IF StepSweep # 0 THEN PiT ELSE -PiT)
       ELSE StepDeltaBefore

\* The smallest n >= 1 with |da| / n <= 90 degrees.
MinSegments(da) ==
  IF da = 0 THEN 1 ELSE (2 * Abs(da) + PiT - 1) \div PiT

\* C19: a non-degenerate arc is approximated by the smallest number n >= 1
\* of cubic Bezier segments with |delta| / n <= 90 degrees; each segment
\* adds Samples points to the polyline.
C19_FewestSegments ==
  [][(ArcCurveStep /\ TessStep) =>
        Len(PolyAfter) = Len(TPoly) + Samples * MinSegments(StepDeltaAfter)]_vars

\* C21: for a command sequence that begins with a move, nothing reads the
\* first or last point of a polyline without points: no close is executed
\* on an empty polyline, and PathsToClosedPolylines never reads element 0
\* of a polyline without points.
C21_NoReadOfEmptyPolyline ==
  /\ (Parsed /\ cmds # <<>> /\ IsMove(cmds[1])) =>
        "front() of an empty vector" \notin ub
  /\ "operator[] of an empty vector" \notin ub

====
